---- MODULE Spec2Model ----
(***************************************************************************)
(* Model of jactorch/functional/mask.py: mask_meshgrid, masked_average,    *)
(* length2mask, length_masked_reversed, masked_softmax and                 *)
(* length_masked_softmax, over a small dense-tensor algebra.               *)
(*                                                                         *)
(* A tensor is a record [shape, dtype, data]: shape is the sequence of     *)
(* axis sizes, dtype is "float", "int64" or "bool", and data maps every    *)
(* 0-based index tuple of the shape to an element.  Floating elements are  *)
(* exact rationals <<n, d>> in lowest terms; <<0,0>> is NaN and <<1,0>>,   *)
(* <<-1,0>> are the infinities a division by zero produces.  int64         *)
(* elements are integers and bool elements are booleans.  A failed call is *)
(* a record [error |-> <exception name>].                                  *)
(***************************************************************************)
EXTENDS Integers, Sequences, FiniteSets, TLC

VARIABLES fn, pc, tensor, lengths, mask, opt, aux, ret, calls, arg0

vars == <<fn, pc, tensor, lengths, mask, opt, aux, ret, calls, arg0>>

\* The absent value (Python's None).
None == [none |-> TRUE]

(***************************************************************************)
(* Bounds of the model.                                                    *)
(***************************************************************************)
MaxT == 3
MaxL == 2
MaxK == 3

\* The batch sizes and the tensor elements the inputs are drawn from.
BatchSizes == {1, 2}

Vals == {0, 1}

(***************************************************************************)
(* Exact rational arithmetic standing for the floating elements.           *)
(***************************************************************************)
Abs(x) == IF x < 0 THEN -x ELSE x

Sign(x) == IF x < 0 THEN -1 ELSE IF x > 0 THEN 1 ELSE 0

RECURSIVE GCD(_, _)
GCD(a, b) == IF b = 0 THEN a ELSE GCD(b, a % b)

Norm(n, d) ==
    IF d = 0 THEN <<Sign(n), 0>>
    ELSE LET g == GCD(Abs(n), Abs(d))
             s == IF d < 0 THEN -1 ELSE 1
         IN  <<(s * n) \div g, (s * d) \div g>>

Rat(n) == <<n, 1>>

IsNaN(x) == x = <<0, 0>>

IsFinite(x) == x[2] # 0

RAdd(x, y) ==
    IF IsFinite(x) /\ IsFinite(y) THEN Norm(x[1] * y[2] + y[1] * x[2], x[2] * y[2])
    ELSE IF IsNaN(x) \/ IsNaN(y) THEN <<0, 0>>
    ELSE IF IsFinite(x) THEN y
    ELSE IF IsFinite(y) \/ x = y THEN x
    ELSE <<0, 0>>

RNeg(x) == <<-x[1], x[2]>>

RSub(x, y) == RAdd(x, RNeg(y))

RMul(x, y) ==
    IF IsFinite(x) /\ IsFinite(y) THEN Norm(x[1] * y[1], x[2] * y[2])
    ELSE <<Sign(x[1]) * Sign(y[1]), 0>>

RDiv(x, y) ==
    IF IsFinite(x) /\ IsFinite(y) THEN Norm(x[1] * y[2], x[2] * y[1])
    ELSE IF IsFinite(y) /\ ~IsNaN(x) THEN <<x[1] * (IF y[1] < 0 THEN -1 ELSE 1), 0>>
    ELSE IF IsFinite(x) /\ ~IsNaN(y) THEN <<0, 1>>
    ELSE <<0, 0>>

RLess(x, y) ==
    IF IsNaN(x) \/ IsNaN(y) THEN FALSE
    ELSE IF IsFinite(x) /\ IsFinite(y) THEN x[1] * y[2] < y[1] * x[2]
    ELSE IF IsFinite(x) THEN y[1] > 0
    ELSE IF IsFinite(y) THEN x[1] < 0
    ELSE x[1] < y[1]

RMax(x, y) == IF IsNaN(x) THEN x ELSE IF RLess(x, y) THEN y ELSE x

(***************************************************************************)
(* The dense N-dimensional array runtime.                                  *)
(***************************************************************************)
Err(name) == [error |-> name]

IsErr(x) == "error" \in DOMAIN x

RECURSIVE Indices(_)
Indices(shape) ==
    IF shape = <<>> THEN {<<>>}
    ELSE {<<i>> \o r : i \in 0 .. (shape[1] - 1), r \in Indices(Tail(shape))}

\* A tensor of the given shape and element type; f maps Indices(shape) to elements.
Tensor(shape, dtype, f) == [shape |-> shape, dtype |-> dtype, data |-> f]

Rank(t) == Len(t.shape)

RECURSIVE Prod(_)
Prod(s) == IF s = <<>> THEN 1 ELSE s[1] * Prod(Tail(s))

Numel(t) == Prod(t.shape)

\* A non-negative axis number for a possibly negative one (-1 is the last axis).
Axis(d, rank) == IF d < 0 THEN d + rank ELSE d

InsertAt(s, p, x) == SubSeq(s, 1, p - 1) \o <<x>> \o SubSeq(s, p, Len(s))

RemoveAt(s, p) == SubSeq(s, 1, p - 1) \o SubSeq(s, p + 1, Len(s))

\* t.unsqueeze(d): a singleton axis inserted at position d (d < 0 counts from
\* one past the last axis).
Unsqueeze(t, d) ==
    LET p == (IF d < 0 THEN d + Rank(t) + 1 ELSE d) + 1
    IN  IF p < 1 \/ p > Rank(t) + 1 THEN Err("IndexError")
        ELSE Tensor(InsertAt(t.shape, p, 1), t.dtype,
                    [idx \in Indices(InsertAt(t.shape, p, 1)) |-> t.data[RemoveAt(idx, p)]])

\* Broadcasting: shapes are aligned at their last axes, a missing or size-1
\* axis stretches to the other operand's size.
PadLeft(s, r) == [a \in 1 .. (r - Len(s)) |-> 1] \o s

BroadcastOk(s1, s2) ==
    LET r == IF Len(s1) > Len(s2) THEN Len(s1) ELSE Len(s2)
        p1 == PadLeft(s1, r)
        p2 == PadLeft(s2, r)
    IN  \A a \in 1 .. r : p1[a] = p2[a] \/ p1[a] = 1 \/ p2[a] = 1

BroadcastShape(s1, s2) ==
    LET r == IF Len(s1) > Len(s2) THEN Len(s1) ELSE Len(s2)
        p1 == PadLeft(s1, r)
        p2 == PadLeft(s2, r)
    IN  [a \in 1 .. r |-> IF p1[a] = 1 THEN p2[a] ELSE p1[a]]

\* The index into a tensor of shape s that a broadcast index idx reads.
BIndex(idx, s) ==
    LET off == Len(idx) - Len(s)
    IN  [a \in 1 .. Len(s) |-> IF s[a] = 1 THEN 0 ELSE idx[a + off]]

At(t, idx) == t.data[BIndex(idx, t.shape)]

\* torch.gather(input, dim, index)
Gather(input, dim, index) ==
    IF Rank(index) # Rank(input) THEN Err("RuntimeError")
    ELSE IF \E a \in 1 .. Rank(input) : a # dim + 1 /\ index.shape[a] > input.shape[a]
         THEN Err("RuntimeError")
    ELSE IF \E idx \in Indices(index.shape) :
                index.data[idx] \notin 0 .. (input.shape[dim + 1] - 1)
         THEN Err("RuntimeError")
    ELSE Tensor(index.shape, input.dtype,
                [idx \in Indices(index.shape) |->
                    input.data[[idx EXCEPT ![dim + 1] = index.data[idx]]]])

\* The operand pairs of an elementwise binary operation with broadcasting; an
\* operand that is already a failure, or shapes that do not broadcast, fail it.
Pairs(a, b) ==
    IF IsErr(a) THEN a
    ELSE IF IsErr(b) THEN b
    ELSE IF ~BroadcastOk(a.shape, b.shape) THEN Err("RuntimeError")
    ELSE [shape |-> BroadcastShape(a.shape, b.shape),
          data |-> [idx \in Indices(BroadcastShape(a.shape, b.shape)) |->
                       <<At(a, idx), At(b, idx)>>]]

\* A Python scalar as a 0-dimensional tensor.
Scalar(x) == [shape |-> <<>>, dtype |-> "float", data |-> (<<>> :> x)]

\* t.float(): booleans become 1.0 and 0.0, integers the same number.
FloatOf(dtype, x) ==
    IF dtype = "bool" THEN (IF x THEN <<1, 1>> ELSE <<0, 1>>)
    ELSE IF dtype = "int64" THEN Rat(x)
    ELSE x

ToFloat(t) ==
    IF IsErr(t) THEN t
    ELSE Tensor(t.shape, "float", [idx \in DOMAIN t.data |-> FloatOf(t.dtype, t.data[idx])])

\* a * b; an operand that is not floating is promoted.
Mul(a, b) ==
    LET z == Pairs(a, b)
    IN  IF IsErr(z) THEN z
        ELSE Tensor(z.shape, "float",
                    [idx \in DOMAIN z.data |->
                        RMul(FloatOf(a.dtype, z.data[idx][1]), FloatOf(b.dtype, z.data[idx][2]))])

\* a + b on floating tensors
Add(a, b) ==
    LET z == Pairs(a, b)
    IN  IF IsErr(z) THEN z
        ELSE Tensor(z.shape, "float",
                    [idx \in DOMAIN z.data |-> RAdd(z.data[idx][1], z.data[idx][2])])

\* a / b on floating tensors
Div(a, b) ==
    LET z == Pairs(a, b)
    IN  IF IsErr(z) THEN z
        ELSE Tensor(z.shape, "float",
                    [idx \in DOMAIN z.data |-> RDiv(z.data[idx][1], z.data[idx][2])])

\* a <= b on integer tensors: a bool tensor.
LessEq(a, b) ==
    LET z == Pairs(a, b)
    IN  IF IsErr(z) THEN z
        ELSE Tensor(z.shape, "bool",
                    [idx \in DOMAIN z.data |-> z.data[idx][1] <= z.data[idx][2]])

\* a < b on integer tensors: a bool tensor.
Less(a, b) ==
    LET z == Pairs(a, b)
    IN  IF IsErr(z) THEN z
        ELSE Tensor(z.shape, "bool",
                    [idx \in DOMAIN z.data |-> z.data[idx][1] < z.data[idx][2]])

\* 1 - mask: the runtime refuses the subtraction on a bool tensor.
OneMinus(m) ==
    IF IsErr(m) THEN m
    ELSE IF m.dtype = "bool" THEN Err("RuntimeError")
    ELSE Tensor(m.shape, "float",
                [idx \in DOMAIN m.data |-> RSub(<<1, 1>>, FloatOf(m.dtype, m.data[idx]))])

RECURSIVE SumOver(_, _)
SumOver(S, f) ==
    IF S = {} THEN <<0, 1>>
    ELSE LET x == CHOOSE y \in S : TRUE IN RAdd(f[x], SumOver(S \ {x}, f))

\* t.sum(): the 0-dimensional sum of every element.
Sum(t) == IF IsErr(t) THEN t ELSE Scalar(SumOver(DOMAIN t.data, t.data))

\* t.sum(dim, keepdim=True)
SumDim(t, dim) ==
    IF IsErr(t) THEN t
    ELSE LET a == Axis(dim, Rank(t)) + 1
         IN  Tensor([t.shape EXCEPT ![a] = 1], "float",
                    [idx \in Indices([t.shape EXCEPT ![a] = 1]) |->
                        SumOver({[idx EXCEPT ![a] = j] : j \in 0 .. (t.shape[a] - 1)},
                                t.data)])

\* t.clamp(min=lo)
ClampMin(t, lo) ==
    IF IsErr(t) THEN t
    ELSE Tensor(t.shape, "float", [idx \in DOMAIN t.data |-> RMax(t.data[idx], lo)])


(***************************************************************************)
(* length_masked_reversed                                                  *)
(***************************************************************************)
\* np.arange(n) as a row; position j of the array is element j + 1 of the row.
Arange(n) == [j \in 1 .. n |-> j - 1]

Min(a, b) == IF a < b THEN a ELSE b

\* row[:n] for n > 0: the positions the slice covers.
SliceTo(row, n) == SubSeq(row, 1, Min(n, Len(row)))

\* row[s::-1] for s >= 0: from position s (clipped to the last one) down to 0.
SliceRevFrom(row, s) ==
    LET start == Min(s, Len(row) - 1)
    IN  [j \in 1 .. (start + 1) |-> row[start + 2 - j]]

\* row[:n] = rhs; numpy reads the right-hand side before it writes, and refuses
\* a right-hand side of another length (other than 1).  [ok, row].
AssignSliceTo(row, n, rhs) ==
    LET m == Len(SliceTo(row, n))
    IN  IF Len(rhs) # m /\ Len(rhs) # 1 THEN [ok |-> FALSE, row |-> row]
        ELSE [ok |-> TRUE,
              row |-> [j \in 1 .. Len(row) |->
                          IF j <= m THEN (IF Len(rhs) = 1 THEN rhs[1] ELSE rhs[j])
                          ELSE row[j]]]

\* The loop body with the reversed slice started one position too far.
ReverseRowOffByOne(row, length) ==
    IF length > 0 THEN AssignSliceTo(row, length, SliceRevFrom(row, length))
    ELSE [ok |-> TRUE, row |-> row]

\* The loop body without numpy's clipping of a slice bound beyond the row.
ReverseRowUnclipped(row, length) ==
    IF length > 0 /\ length <= Len(row)
    THEN AssignSliceTo(row, length, SliceRevFrom(row, length - 1))
    ELSE [ok |-> TRUE, row |-> [j \in 1 .. Len(row) |-> Len(row) - 1]]

\* One iteration of the loop over lengths (lines 79-80).
ReverseRow(row, length) ==
    IF length > 0 THEN AssignSliceTo(row, length, SliceRevFrom(row, length - 1))
    ELSE [ok |-> TRUE, row |-> row]

\* reversed_indices as built by lines 77-81, for a tensor with B rows of T.
ReversedIndices(B, T, lens) ==
    LET rows == [i \in 1 .. B |-> ReverseRow(Arange(T), lens[i])]
    IN  IF \E i \in 1 .. B : ~rows[i].ok THEN Err("ValueError")
        ELSE Tensor(<<B, T>>, "int64",
                    [idx \in Indices(<<B, T>>) |-> rows[idx[1] + 1].row[idx[2] + 1]])

\* lengths.cpu().numpy().tolist()
ToList(t) == [i \in 1 .. t.shape[1] |-> t.data[<<i - 1>>]]

Shapes2 == {<<b, t>> : b \in BatchSizes, t \in 1 .. MaxT}

Shapes3 == {<<b, t, 1>> : b \in BatchSizes, t \in 1 .. MaxT}

FloatTensors(shapes) ==
    UNION {{[shape |-> s, dtype |-> "float", data |-> d] :
                d \in [Indices(s) -> {Rat(v) : v \in Vals}]} : s \in shapes}

LengthVectors ==
    UNION {{[shape |-> <<b>>, dtype |-> "int64", data |-> d] :
                d \in [Indices(<<b>>) -> (-1) .. (MaxT + 1)]} : b \in BatchSizes}

ReversedDims == {0, 1}

InitReversed ==
    /\ fn = "length_masked_reversed"
    /\ pc = "start"
    /\ tensor \in FloatTensors(Shapes2 \cup Shapes3)
    /\ lengths \in LengthVectors
    /\ opt \in [dim : ReversedDims]
    /\ mask = None
    /\ aux = None
    /\ ret = None
    /\ calls = 1
    /\ arg0 = tensor

\* Lines 73-76: the assertion on dim, then the batch-size check.
ReversedValidate ==
    /\ fn = "length_masked_reversed" /\ pc = "start"
    /\ pc' = IF opt.dim # 1 THEN "AssertionError"
             ELSE IF tensor.shape[1] # lengths.shape[1] THEN "ValueError"
             ELSE "validated"
    /\ UNCHANGED <<fn, tensor, lengths, mask, opt, aux, ret, calls, arg0>>

\* Lines 77-81: the index tensor.
ReversedBuildIndices ==
    /\ fn = "length_masked_reversed" /\ pc = "validated"
    /\ LET ri == ReversedIndices(tensor.shape[1], tensor.shape[2], ToList(lengths))
       IN  /\ aux' = ri
           /\ pc' = IF IsErr(ri) THEN ri.error ELSE "indexed"
    /\ UNCHANGED <<fn, tensor, lengths, mask, opt, ret, calls, arg0>>

\* Lines 82-83: the gather and the return.
ReversedGather ==
    /\ fn = "length_masked_reversed" /\ pc = "indexed"
    /\ LET out == Gather(tensor, opt.dim, aux)
       IN  /\ ret' = out
           /\ pc' = IF IsErr(out) THEN out.error ELSE "done"
    /\ UNCHANGED <<fn, tensor, lengths, mask, opt, aux, calls, arg0>>

\* The caller reverses the result again with the same lengths.
ReversedAgain ==
    /\ fn = "length_masked_reversed" /\ pc = "done" /\ calls = 1
    /\ tensor' = ret
    /\ pc' = "start"
    /\ calls' = 2
    /\ aux' = None
    /\ ret' = None
    /\ UNCHANGED <<fn, lengths, mask, opt, arg0>>

NextReversed ==
    \/ ReversedValidate
    \/ ReversedBuildIndices
    \/ ReversedGather
    \/ ReversedAgain

SpecReversed == InitReversed /\ [][NextReversed]_vars

ReversedTerminal == pc \notin {"start", "validated", "indexed"}

ReversedCallOk ==
    /\ fn = "length_masked_reversed"
    /\ opt.dim = 1
    /\ lengths.shape[1] = tensor.shape[1]

\* The source position that output position j of a row of length l reads.
Mirror(j, l) == IF j < l THEN l - 1 - j ELSE j

\* C1: for a tensor of shape [B,T] and lengths with 0 <= lengths[i] <= T the
\* call returns a tensor of shape [B,T] with out[i][j] = tensor[i][l-1-j] for
\* j < l and out[i][j] = tensor[i][j] for j >= l, where l = lengths[i].
C1_ReversedPrefixPaddingKept ==
    (/\ ReversedCallOk
     /\ Rank(tensor) = 2
     /\ \A i \in DOMAIN lengths.data : lengths.data[i] \in 0 .. tensor.shape[2]
     /\ ReversedTerminal)
    => /\ pc = "done"
       /\ ret.shape = tensor.shape
       /\ \A idx \in Indices(tensor.shape) :
             ret.data[idx] = tensor.data[<<idx[1], Mirror(idx[2], lengths.data[<<idx[1]>>])>>]

\* A returned call on two rows of three: one row reversed in its first two
\* positions (which differ), the other of length 0.
C1_Witness ==
    /\ ReversedCallOk /\ pc = "done" /\ calls = 1
    /\ tensor.shape = <<2, 3>>
    /\ lengths.data[<<0>>] = 2 /\ lengths.data[<<1>>] = 0
    /\ tensor.data[<<0, 0>>] # tensor.data[<<0, 1>>]
    /\ ret.data[<<0, 0>>] = tensor.data[<<0, 1>>]

\* C5: every call either returns a result or fails with a validation error
\* raised before any index is built; a batch-size mismatch raises the
\* validation error and dim # 1 is rejected; no call fails later.
C5_FailsOnlyInValidation ==
    (fn = "length_masked_reversed" /\ ReversedTerminal)
    => /\ pc = "done" \/ (pc \in {"AssertionError", "ValueError"} /\ aux = None)
       /\ opt.dim # 1 => pc = "AssertionError"
       /\ (opt.dim = 1 /\ lengths.shape[1] # tensor.shape[1]) => pc = "ValueError"

\* C6: for a tensor of shape [B,T,...] with trailing axes the call returns a
\* tensor of the same shape, each batch element's first lengths[i] positions
\* along axis 1 reversed for every trailing index and the rest copied.
C6_ReversedWithTrailingAxes ==
    (/\ ReversedCallOk
     /\ Rank(tensor) = 3
     /\ \A i \in DOMAIN lengths.data : lengths.data[i] \in 0 .. tensor.shape[2]
     /\ ReversedTerminal)
    => /\ pc = "done"
       /\ ret.shape = tensor.shape
       /\ \A idx \in Indices(tensor.shape) :
             ret.data[idx] =
                tensor.data[<<idx[1], Mirror(idx[2], lengths.data[<<idx[1]>>]), idx[3]>>]

IsPermutationRow(t, i) ==
    {t.data[<<i, j>>] : j \in 0 .. (t.shape[2] - 1)} = 0 .. (t.shape[2] - 1)

\* C10: for a tensor of shape [B,T] and any integer lengths, every row of the
\* index tensor is a permutation of 0..T-1, reversing the result again with
\* the same lengths gives the tensor back, and the argument is not modified.
C10_ReversedInvolution ==
    (ReversedCallOk /\ Rank(tensor) = 2)
    => /\ pc \in {"indexed", "done"} =>
             \A i \in 0 .. (aux.shape[1] - 1) : IsPermutationRow(aux, i)
       /\ ReversedTerminal => pc = "done"
       /\ (calls = 2 /\ pc = "done") => ret = arg0
       /\ calls = 1 => tensor = arg0

\* The second call has returned, for lengths with an entry beyond T (that row
\* is reversed in full) and a negative entry.
C10_Witness ==
    /\ ReversedCallOk /\ Rank(tensor) = 2 /\ calls = 2 /\ pc = "done"
    /\ tensor.shape = <<2, 3>>
    /\ lengths.data[<<0>>] > 3 /\ lengths.data[<<1>>] < 0
    /\ aux.data[<<0, 0>>] = 2
    /\ tensor # arg0

(***************************************************************************)
(* mask_meshgrid                                                           *)
(***************************************************************************)
MaskVals == {<<0, 1>>, <<1, 2>>, <<1, 1>>}

MeshMaskShapes == {<<l>> : l \in 1 .. MaxL} \cup {<<b, l>> : b \in BatchSizes, l \in 1 .. MaxL}

MeshMasks ==
    UNION {{[shape |-> s, dtype |-> "float", data |-> d] : d \in [Indices(s) -> MaskVals]} :
              s \in MeshMaskShapes}

InitMeshgrid ==
    /\ fn = "mask_meshgrid"
    /\ pc = "loop"
    /\ mask \in MeshMasks
    /\ opt \in [target_dims : 1 .. MaxK]
    /\ aux = 0
    /\ arg0 = mask
    /\ tensor = None /\ lengths = None /\ ret = None /\ calls = 1

\* Lines 25-27: one iteration of the loop, aux being the loop variable i.
MeshgridIteration ==
    /\ fn = "mask_meshgrid" /\ pc = "loop"
    /\ aux < opt.target_dims - 1
    /\ LET f == Unsqueeze(mask, -1)
           g == Unsqueeze(mask, -2)
       IN  mask' = Mul(f, g)
    /\ aux' = aux + 1
    /\ UNCHANGED <<fn, pc, tensor, lengths, opt, ret, calls, arg0>>

\* Line 29
MeshgridReturn ==
    /\ fn = "mask_meshgrid" /\ pc = "loop"
    /\ aux >= opt.target_dims - 1
    /\ ret' = mask
    /\ pc' = "done"
    /\ UNCHANGED <<fn, tensor, lengths, mask, opt, aux, calls, arg0>>

NextMeshgrid == MeshgridIteration \/ MeshgridReturn

SpecMeshgrid == InitMeshgrid /\ [][NextMeshgrid]_vars

RECURSIVE ProductAt(_, _, _)
\* m[lead, i1] * ... * m[lead, ik] for the trailing indices is = <<i1, ..., ik>>.
ProductAt(m, lead, is) ==
    IF is = <<>> THEN <<1, 1>>
    ELSE RMul(m.data[lead \o <<is[1]>>], ProductAt(m, lead, Tail(is)))

\* C3: mask_meshgrid(m, k) has shape [..., L, ..., L] with k copies of L, its
\* entry at (i1, ..., ik) is m[i1] * ... * m[ik] with each factor once, also
\* for soft weights, and for k = 1 the input is returned unchanged.
C3_MeshgridIsProductOfFactors ==
    (fn = "mask_meshgrid" /\ pc = "done")
    => LET k == opt.target_dims
           n == Rank(arg0) - 1
           L == arg0.shape[n + 1]
       IN  /\ ret.shape = SubSeq(arg0.shape, 1, n) \o [a \in 1 .. k |-> L]
           /\ \A idx \in Indices(ret.shape) :
                 ret.data[idx] = ProductAt(arg0, SubSeq(idx, 1, n), SubSeq(idx, n + 1, n + k))
           /\ k = 1 => ret = arg0

(***************************************************************************)
(* masked_average                                                          *)
(***************************************************************************)
\* eps=1e-8, the default of line 32, and a larger value
EpsDefault == <<1, 100000000>>

AverageEps == {EpsDefault, <<1, 2>>}

AverageShapes == {<<b, l>> : b \in BatchSizes, l \in 1 .. MaxL}

\* The shapes a mask of a tensor of shape s is given in: s itself and the
\* smaller shapes that broadcast to it.
MaskShapesFor(s) == {s, <<s[Len(s)]>>, <<1>>, <<s[1], 1>>}

IntTensors(shapes, vals) ==
    UNION {{[shape |-> s, dtype |-> "int64", data |-> d] : d \in [Indices(s) -> vals]} :
              s \in shapes}

FloatMasks(shapes) ==
    UNION {{[shape |-> s, dtype |-> "float", data |-> d] :
                d \in [Indices(s) -> {<<0, 1>>, <<1, 1>>}]} : s \in shapes}

BoolMasks(shapes) ==
    UNION {{[shape |-> s, dtype |-> "bool", data |-> d] :
                d \in [Indices(s) -> BOOLEAN]} : s \in shapes}

\* The average without the clamp of the denominator.
MaskedAverageNoClamp(t, m, eps) ==
    Div(Sum(Mul(ToFloat(t), ToFloat(m))), Sum(ToFloat(m)))

\* Lines 45-48
MaskedAverage(t, m, eps) ==
    Div(Sum(Mul(ToFloat(t), ToFloat(m))), ClampMin(Sum(ToFloat(m)), eps))

InitAverage ==
    /\ fn = "masked_average"
    /\ pc = "start"
    /\ tensor \in IntTensors(AverageShapes, Vals)
    /\ \/ mask \in FloatMasks(MaskShapesFor(tensor.shape))
       \/ mask \in BoolMasks(MaskShapesFor(tensor.shape))
    /\ opt \in [eps : AverageEps]
    /\ lengths = None /\ aux = None /\ ret = None /\ calls = 1 /\ arg0 = None

MaskedAverageCall ==
    /\ fn = "masked_average" /\ pc = "start"
    /\ LET out == MaskedAverage(tensor, mask, opt.eps)
       IN  /\ ret' = out
           /\ pc' = IF IsErr(out) THEN out.error ELSE "done"
    /\ UNCHANGED <<fn, tensor, lengths, mask, opt, aux, calls, arg0>>

NextAverage == MaskedAverageCall

SpecAverage == InitAverage /\ [][NextAverage]_vars

\* The weight the mask gives the element of the tensor at idx, as an integer.
Weight(m, idx) == FloatOf(m.dtype, At(m, idx))[1]

RECURSIVE IntSum(_, _)
IntSum(S, f) ==
    IF S = {} THEN 0 ELSE LET x == CHOOSE y \in S : TRUE IN f[x] + IntSum(S \ {x}, f)

AllOnes(m) == \A idx \in DOMAIN m.data : FloatOf(m.dtype, m.data[idx]) = <<1, 1>>

AllZero(m) == \A idx \in DOMAIN m.data : FloatOf(m.dtype, m.data[idx]) = <<0, 1>>

\* C4: for a mask that is identically 1 and broadcastable to the tensor's
\* shape, masked_average is the mean of all elements of the tensor.
C4_AllOnesMaskGivesMean ==
    (fn = "masked_average" /\ pc # "start" /\ AllOnes(mask))
    => /\ pc = "done"
       /\ ret.data[<<>>] =
             Norm(IntSum(DOMAIN tensor.data, tensor.data), Numel(tensor))

\* C9: for an all-zero mask the call does not raise and returns exactly 0,
\* never NaN or infinity; in general the result is sum(t * m) / max(sum(m), eps).
C9_ZeroMaskGivesZero ==
    (fn = "masked_average" /\ pc # "start")
    => /\ pc = "done"
       /\ IsFinite(ret.data[<<>>])
       /\ AllZero(mask) => ret.data[<<>>] = <<0, 1>>
       /\ LET num == IntSum(DOMAIN tensor.data,
                            [idx \in DOMAIN tensor.data |-> tensor.data[idx] * Weight(mask, idx)])
              den == IntSum(DOMAIN mask.data,
                            [idx \in DOMAIN mask.data |-> Weight(mask, idx)])
          IN  ret.data[<<>>] = RDiv(Rat(num), RMax(Rat(den), opt.eps))

\* A returned call with an all-zero mask on a tensor that is not all zero.
C9_Witness ==
    /\ fn = "masked_average" /\ pc = "done"
    /\ AllZero(mask)
    /\ \E idx \in DOMAIN tensor.data : tensor.data[idx] # 0
    /\ ret.data[<<>>] = <<0, 1>>

(***************************************************************************)
(* length2mask                                                             *)
(***************************************************************************)
\* torch.arange(n, dtype=int64) as a 1-D tensor
ArangeTensor(n) == Tensor(<<n>>, "int64", [idx \in Indices(<<n>>) |-> idx[1]])

RECURSIVE AddDims(_, _, _, _)
AddDims(t, i, rank, except) ==
    IF i >= rank \/ IsErr(t) THEN t
    ELSE AddDims(IF i = except THEN t ELSE Unsqueeze(t, i), i + 1, rank, except)

\* shape.add_dim_as_except(tensor, target, except): a singleton axis is
\* inserted into tensor at every axis position of target but the excepted one.
AddDimAsExcept(t, target, except) == AddDims(t, 0, Rank(target), Axis(except, Rank(target)))

\* The mask with the comparison rng <= lengths.
Length2MaskInclusive(lens, max_length) ==
    LET rng == ArangeTensor(max_length)
        l1 == Unsqueeze(lens, -1)
        r1 == AddDimAsExcept(rng, l1, -1)
    IN  ToFloat(LessEq(r1, l1))

\* Lines 52-56
Length2Mask(lens, max_length) ==
    LET rng == ArangeTensor(max_length)
        l1 == Unsqueeze(lens, -1)
        r1 == AddDimAsExcept(rng, l1, -1)
    IN  ToFloat(Less(r1, l1))

LengthShapes ==
    {<<>>} \cup {<<b>> : b \in BatchSizes} \cup {<<b, c>> : b \in BatchSizes, c \in BatchSizes}

InitLength2Mask ==
    /\ fn = "length2mask"
    /\ pc = "start"
    /\ lengths \in IntTensors(LengthShapes, (-1) .. (MaxL + 1))
    /\ opt \in [max_length : 0 .. MaxL]
    /\ tensor = None /\ mask = None /\ aux = None /\ ret = None /\ calls = 1 /\ arg0 = None

Length2MaskCall ==
    /\ fn = "length2mask" /\ pc = "start"
    /\ LET out == Length2Mask(lengths, opt.max_length)
       IN  /\ ret' = out
           /\ pc' = IF IsErr(out) THEN out.error ELSE "done"
    /\ UNCHANGED <<fn, tensor, lengths, mask, opt, aux, calls, arg0>>

NextLength2Mask == Length2MaskCall

SpecLength2Mask == InitLength2Mask /\ [][NextLength2Mask]_vars

\* C7: length2mask(lengths, L) has shape S + [L] for lengths of any shape S
\* and any integer values, its entry at (s, j) is 1.0 if j < lengths[s] and 0.0
\* otherwise, and its elements are floating, not booleans.
C7_Length2MaskEntries ==
    (fn = "length2mask" /\ pc # "start")
    => /\ pc = "done"
       /\ ret.shape = lengths.shape \o <<opt.max_length>>
       /\ ret.dtype = "float"
       /\ \A s \in Indices(lengths.shape) : \A j \in 0 .. (opt.max_length - 1) :
             ret.data[s \o <<j>>] = IF j < lengths.data[s] THEN <<1, 1>> ELSE <<0, 1>>

\* A returned mask for lengths of shape [2,2] holding a negative length, 0, an
\* in-range length and a length beyond L.
C7_Witness ==
    /\ fn = "length2mask" /\ pc = "done"
    /\ lengths.shape = <<2, 2>> /\ opt.max_length = 2
    /\ lengths.data[<<0, 0>>] = -1 /\ lengths.data[<<0, 1>>] = 0
    /\ lengths.data[<<1, 0>>] = 1 /\ lengths.data[<<1, 1>>] = 3
    /\ ret.data[<<1, 0, 0>>] = <<1, 1>> /\ ret.data[<<1, 0, 1>>] = <<0, 1>>

(***************************************************************************)
(* masked_softmax and length_masked_softmax                                *)
(***************************************************************************)
RECURSIVE Pow2(_)
Pow2(n) == IF n = 0 THEN 1 ELSE 2 * Pow2(n - 1)

\* The exponential of the softmax primitive, on the integer logits of the
\* model and to base 2 so that every probability stays an exact rational.
Exp(x) == IF x[1] >= 0 THEN <<Pow2(x[1]), 1>> ELSE <<1, Pow2(-x[1])>>

\* F.softmax(logits, dim=dim)
Softmax(t, dim) ==
    IF IsErr(t) THEN t
    ELSE LET e == Tensor(t.shape, "float", [idx \in DOMAIN t.data |-> Exp(t.data[idx])])
         IN  Div(e, SumDim(e, dim))

\* The masked softmax without the eps floor before the renormalization.
MaskedSoftmaxNoFloor(logits, m, dim, eps, ninf) ==
    IF m = None THEN Softmax(logits, dim)
    ELSE LET blended == Add(Mul(logits, m), Mul(Scalar(ninf), OneMinus(m)))
             probs == Softmax(blended, dim)
             masked == Mul(probs, ToFloat(m))
         IN  IF IsErr(blended) THEN blended ELSE Div(masked, SumDim(masked, dim))

\* Lines 87-96
MaskedSoftmax(logits, m, dim, eps, ninf) ==
    IF m = None THEN Softmax(logits, dim)
    ELSE LET blended == Add(Mul(logits, m), Mul(Scalar(ninf), OneMinus(m)))
             probs == Softmax(blended, dim)
             floored == Add(Mul(probs, ToFloat(m)), Scalar(eps))
         IN  IF IsErr(blended) THEN blended ELSE Div(floored, SumDim(floored, dim))

\* Lines 100-104; eps is masked_softmax's own default, which the call leaves.
LengthMaskedSoftmax(logits, lens, dim, eps, ninf) ==
    LET rng == AddDimAsExcept(ArangeTensor(logits.shape[Axis(dim, Rank(logits)) + 1]),
                              logits, dim)
        l1 == Unsqueeze(lens, dim)
        m == Less(rng, l1)
    IN  IF IsErr(m) THEN m ELSE MaskedSoftmax(logits, m, dim, eps, ninf)

LogitShapes == {<<b, l>> : b \in BatchSizes, l \in 1 .. MaxL}

LogitShapes3 == {<<b, c, l>> : b \in BatchSizes, c \in BatchSizes, l \in 1 .. MaxL}

\* Tensors whose elements are all the same value.
ConstTensors(shapes) ==
    {[shape |-> s, dtype |-> "float", data |-> [idx \in Indices(s) |-> Rat(v)]] :
        s \in shapes, v \in Vals}

\* eps and ninf as passed by the caller (defaults 1e-20 and -1e4, line 86).
SoftmaxEps == {<<1, 100>>}

SoftmaxNinf == {<<-3, 1>>}

InitSoftmax ==
    /\ pc = "start"
    /\ \/ /\ fn = "masked_softmax"
          /\ tensor \in FloatTensors(LogitShapes)
          /\ \/ mask = None
             \/ mask \in FloatMasks({tensor.shape, <<tensor.shape[2]>>})
          /\ opt \in [dim : {-1, 0, 1}, eps : SoftmaxEps, ninf : SoftmaxNinf]
          /\ lengths = None
       \/ /\ fn = "length_masked_softmax"
          /\ tensor \in FloatTensors(LogitShapes) \cup ConstTensors(LogitShapes3)
          /\ lengths \in IntTensors({<<tensor.shape[1]>>}, 0 .. (MaxL + 1))
          /\ opt \in [dim : {-1} \cup 1 .. (Rank(tensor) - 1), eps : SoftmaxEps, ninf : SoftmaxNinf]
          /\ mask = None
    /\ aux = None /\ ret = None /\ calls = 1 /\ arg0 = None

MaskedSoftmaxCall ==
    /\ fn = "masked_softmax" /\ pc = "start"
    /\ LET out == MaskedSoftmax(tensor, mask, opt.dim, opt.eps, opt.ninf)
       IN  /\ ret' = out
           /\ pc' = IF IsErr(out) THEN out.error ELSE "done"
    /\ UNCHANGED <<fn, tensor, lengths, mask, opt, aux, calls, arg0>>

LengthMaskedSoftmaxCall ==
    /\ fn = "length_masked_softmax" /\ pc = "start"
    /\ LET out == LengthMaskedSoftmax(tensor, lengths, opt.dim, opt.eps, opt.ninf)
       IN  /\ ret' = out
           /\ pc' = IF IsErr(out) THEN out.error ELSE "done"
    /\ UNCHANGED <<fn, tensor, lengths, mask, opt, aux, calls, arg0>>

NextSoftmax == MaskedSoftmaxCall \/ LengthMaskedSoftmaxCall

SpecSoftmax == InitSoftmax /\ [][NextSoftmax]_vars

\* The floating mask with M[b, ..., j at axis dim, ...] = 1 iff j < lengths[b].
LengthMask(logits, lens, dim) ==
    Tensor(logits.shape, "float",
           [idx \in Indices(logits.shape) |->
               IF idx[Axis(dim, Rank(logits)) + 1] < lens.data[<<idx[1]>>]
               THEN <<1, 1>> ELSE <<0, 1>>])

\* C2: length_masked_softmax(logits, lengths, dim, ninf) returns what
\* masked_softmax returns for the floating mask with M[b, ..., j, ...] = 1 iff
\* j < lengths[b], and does not fail on the derived mask's type or shape.
C2_LengthMaskedSoftmaxDelegates ==
    (fn = "length_masked_softmax" /\ pc # "start")
    => /\ pc = "done"
       /\ ret = MaskedSoftmax(tensor, LengthMask(tensor, lengths, opt.dim),
                              opt.dim, opt.eps, opt.ninf)

\* The indices of the slice along dim through idx.
Slice(t, dim, idx) ==
    {[idx EXCEPT ![Axis(dim, Rank(t)) + 1] = j] :
        j \in 0 .. (t.shape[Axis(dim, Rank(t)) + 1] - 1)}

Kept(m, idx) == At(m, idx) = <<1, 1>>

\* The renormalizing sum of the slice through idx, from the logits: the kept
\* positions share 1 - (masked-out weight) and every position adds eps.
RenormSum(idx) ==
    LET sl == Slice(tensor, opt.dim, idx)
        w == [i \in sl |-> IF Kept(mask, i) THEN Exp(tensor.data[i]) ELSE Exp(opt.ninf)]
        total == SumOver(sl, w)
        kept == SumOver(sl, [i \in sl |-> IF Kept(mask, i) THEN w[i] ELSE <<0, 1>>])
    IN  RAdd(RDiv(kept, total), RMul(Rat(Cardinality(sl)), opt.eps))

\* C8: with a 0/1 mask and finite logits every slice along dim of the result
\* sums to 1 and holds no NaN, a masked-out position holds eps divided by the
\* slice's renormalizing sum, which is strictly positive, and a slice whose
\* mask is all zero is uniform.
C8_MaskedSoftmaxNormalized ==
    (fn = "masked_softmax" /\ mask # None /\ pc # "start")
    => /\ pc = "done"
       /\ ret.shape = tensor.shape
       /\ \A idx \in Indices(tensor.shape) :
             LET sl == Slice(tensor, opt.dim, idx)
             IN  /\ SumOver(sl, ret.data) = <<1, 1>>
                 /\ IsFinite(ret.data[idx])
                 /\ RLess(<<0, 1>>, ret.data[idx])
                 /\ ~Kept(mask, idx) => ret.data[idx] = RDiv(opt.eps, RenormSum(idx))
                 /\ (\A i \in sl : ~Kept(mask, i)) => ret.data[idx] = <<1, Cardinality(sl)>>

\* A returned call on two rows of two where one row's mask is all zero and the
\* other row has one masked-out position.
C8_Witness ==
    /\ fn = "masked_softmax" /\ pc = "done" /\ mask # None
    /\ tensor.shape = <<2, 2>> /\ mask.shape = <<2, 2>> /\ opt.dim = -1
    /\ ~Kept(mask, <<0, 0>>) /\ ~Kept(mask, <<0, 1>>)
    /\ Kept(mask, <<1, 0>>) /\ ~Kept(mask, <<1, 1>>)
    /\ ret.data[<<0, 0>>] = <<1, 2>>
    /\ tensor.data[<<1, 0>>] # tensor.data[<<1, 1>>]

====
